---- MODULE Spec2Model ----
(***************************************************************************)
(* Model of src/src/abitset_expandable.c: a paged, lazily growing bitset.  *)
(*                                                                         *)
(* Representation of a uint32_t.  TLC's integers stop at 2^31-1, and the   *)
(* claims reach the id 2^32-1, so a 32-bit value v is kept as the pair     *)
(*     <<v >> 6, v & 63>>    (word index 0 .. 2^26-1, bit index 0 .. 63)   *)
(* which is exactly the split the code itself makes of an id.  Every       *)
(* arithmetic step of the code on such a value is an operator below that   *)
(* computes the same result modulo 2^32.  Values the code keeps in         *)
(* uint32_t that stay small (page indices, word indices, counts) are       *)
(* plain integers.                                                         *)
(*                                                                         *)
(* Representation of memory.  The page directory and the 4 KB pages are    *)
(* kept sparsely: `pages` is the set of directory indices holding a        *)
(* non-NULL pointer, `bits` the set of <<page, offset, bit>> positions     *)
(* holding a 1.  A dense word array (the result of repr, the input of      *)
(* load) is the set of its 1 bits <<word, bit>> with its length in words.  *)
(***************************************************************************)
EXTENDS Integers, FiniteSets, Sequences

VARIABLES h, members, highest, loaded, last, out, h2, status, max_index

vars == <<h, members, highest, loaded, last, out, h2, status, max_index>>

----------------------------------------------------------------------------
(* Program constants *)

\* PAGE_SIZE (1 << 12), in bytes
PAGE_SIZE == 4096
\* PAGE_ENTRIES (PAGE_SIZE >> 3): 64-bit words in a page
PAGE_ENTRIES == 512
\* INITIAL_PAGES (1 << 11)
INITIAL_PAGES == 2048
\* number of 64-bit words in the id span selected by one page index:
\* the code's `id >> 18` is (id >> 6) >> 12
PAGE_SHIFT_WORDS == 4096
\* number of 64-bit words in the uint32_t id space: 2^32 / 64 = 2^26
U32_WORDS == 67108864

----------------------------------------------------------------------------
(* uint32_t arithmetic on <<word, bit>> pairs *)

U32(w, b) == <<w, b>>

\* a < b on uint32_t
U32Lt(a, b) == a[1] < b[1] \/ (a[1] = b[1] /\ a[2] < b[2])

\* a >= b on uint32_t
U32Ge(a, b) == ~U32Lt(a, b)

\* a > b on uint32_t
U32Gt(a, b) == U32Lt(b, a)

\* (uint32_t)(a + 1)
U32Inc(a) == IF a[2] < 63 THEN <<a[1], a[2] + 1>> ELSE <<(a[1] + 1) % U32_WORDS, 0>>

\* (uint32_t)(a - 1)
U32Dec(a) == IF a[2] > 0 THEN <<a[1], a[2] - 1>> ELSE <<(a[1] + U32_WORDS - 1) % U32_WORDS, 63>>

\* the code's `(x + 63) >> 6` on uint32_t: the sum wraps modulo 2^32
CeilWords(x) == (x[1] + (IF x[2] > 0 THEN 1 ELSE 0)) % U32_WORDS

\* the code's `x - (k << 6)` on uint32_t, k a word index
SubWords(x, k) == <<(x[1] + U32_WORDS - (k % U32_WORDS)) % U32_WORDS, x[2]>>

\* id >> 18
PageOf(id) == id[1] \div PAGE_SHIFT_WORDS

\* (id >> 6) & (PAGE_ENTRIES - 1)
OffsetOf(id) == id[1] % PAGE_ENTRIES

\* id & 63
BitOf(id) == id[2]

\* (uint32_t)((p + 1) << 18)
PageEnd(p) == <<((p + 1) * PAGE_SHIFT_WORDS) % U32_WORDS, 0>>

----------------------------------------------------------------------------
(* Bounds and inputs *)

NumIds == 6
NumLoads == 5

\* ids offered to set, unset and test
IdPool ==
  << U32(0, 0),            \* 0
     U32(512, 0),          \* 32768 = 2^15: one page's worth of bits above id 0
     U32(4096, 0),         \* 262144 = 2^18: first id of page index 1
     U32(8388608, 0),      \* 2^29: page index 2048 = INITIAL_PAGES
     U32(67108863, 63),    \* 2^32 - 1: the largest id
     U32(0, 63),           \* 63
     U32(15625, 0),        \* 1000000
     U32(1, 0) >>          \* 64

Ids == { IdPool[i] : i \in 1..(IF NumIds < Len(IdPool) THEN NumIds ELSE Len(IdPool)) }

\* inputs offered to load: the declared bit count and the 1 bits of the words
LoadPool ==
  << [size |-> U32(10, 0), words |-> {}],                           \* 640 bits, 10 zero words
     [size |-> U32(0, 1), words |-> {<<0, 0>>, <<0, 5>>}],          \* 1 bit, one word
     [size |-> U32(67108863, 63), words |-> {<<0, 0>>}],            \* 2^32 - 1 bits
     [size |-> U32(1048577, 0), words |-> {<<0, 1>>, <<1048576, 0>>}], \* 2^26 + 64 bits
     [size |-> U32(513, 1), words |-> {<<0, 3>>, <<512, 1>>}],      \* 2^15 + 65 bits
     [size |-> U32(1, 0), words |-> {<<0, 63>>}] >>                 \* 64 bits

Loads == 1..(IF NumLoads < Len(LoadPool) THEN NumLoads ELSE Len(LoadPool))

----------------------------------------------------------------------------
(* The handle: struct abitset_expandable_s *)

\* abitset_expandable_init
abitset_expandable_init ==
  [ pages |-> {}, bits |-> {}, page_count |-> INITIAL_PAGES,
    size |-> U32(0, 0), max_bit |-> U32(0, 0) ]

\* the doubling loop of expand: smallest pc * 2^k > required_page
RECURSIVE GrowCount(_, _)
GrowCount(pc, required_page) ==
  IF required_page >= pc THEN GrowCount(pc * 2, required_page) ELSE pc

\* abitset_expandable_expand
abitset_expandable_expand(hh, id) ==
  LET required_page == PageOf(id)
      new_size == PageEnd(required_page)
  IN [ pages |-> hh.pages \cup {required_page},
       bits |-> hh.bits,
       page_count |-> IF required_page >= hh.page_count
                      THEN GrowCount(hh.page_count, required_page)
                      ELSE hh.page_count,
       size |-> IF U32Gt(new_size, hh.size) THEN new_size ELSE hh.size,
       max_bit |-> IF U32Gt(id, hh.max_bit) THEN id ELSE hh.max_bit ]

\* abitset_expandable_set
abitset_expandable_set(hh, id) ==
  LET e == abitset_expandable_expand(hh, id)
  IN [e EXCEPT !.bits = @ \cup {<<PageOf(id), OffsetOf(id), BitOf(id)>>}]

\* abitset_expandable_unset
abitset_expandable_unset(hh, id) ==
  LET e == abitset_expandable_expand(hh, id)
  IN [e EXCEPT !.bits = @ \ {<<PageOf(id), OffsetOf(id), BitOf(id)>>}]

\* abitset_expandable_enabled
abitset_expandable_enabled(hh, id) ==
  IF U32Ge(id, hh.max_bit) THEN FALSE
  ELSE IF PageOf(id) >= hh.page_count \/ PageOf(id) \notin hh.pages THEN FALSE
  ELSE <<PageOf(id), OffsetOf(id), BitOf(id)>> \in hh.bits

\* abitset_expandable_count: the pages scanned are those below page_count
abitset_expandable_count(hh) ==
  Cardinality({ t \in hh.bits : t[1] < hh.page_count /\ t[1] \in hh.pages })

\* abitset_expandable_size
abitset_expandable_size(hh) == U32Inc(hh.max_bit)


----------------------------------------------------------------------------
(* Serialization *)

\* repr, loop body: the memcpy made for allocated page i.  `words` is
\* bytes_to_copy in 64-bit words; wrapped says that `size - (start_idx << 6)`
\* went below zero and wrapped.
ReprCopy(hh, i) ==
  LET size == U32Inc(hh.max_bit)
      start_idx == i * PAGE_ENTRIES
      bits_remaining == SubWords(size, start_idx)
      bytes_to_copy == IF bits_remaining[1] >= PAGE_ENTRIES
                       THEN PAGE_SIZE
                       ELSE CeilWords(bits_remaining) * 8
  IN [ page |-> i,
       start_idx |-> start_idx,
       words |-> bytes_to_copy \div 8,
       wrapped |-> U32Lt(size, U32(start_idx, 0)) ]

\* abitset_expandable_repr: the buffer of num_entries zeroed words after the
\* memcpy of every allocated page.  `words` holds the 1 bits that landed
\* inside the buffer, `copies` the destination range of each memcpy.
abitset_expandable_repr(hh) ==
  LET num_entries == CeilWords(U32Inc(hh.max_bit))
      scanned == { p \in hh.pages : p < hh.page_count }
      copied == { t \in hh.bits : /\ t[1] \in scanned
                                  /\ t[2] < ReprCopy(hh, t[1]).words
                                  /\ t[1] * PAGE_ENTRIES + t[2] < num_entries }
  IN [ valid |-> TRUE,
       num_entries |-> num_entries,
       words |-> { <<t[1] * PAGE_ENTRIES + t[2], t[3]>> : t \in copied },
       copies |-> { ReprCopy(hh, i) : i \in scanned } ]

\* a memcpy of repr that writes past the end of the buffer
ReprOverflow(r) == \E c \in r.copies : c.words > 0 /\ c.start_idx + c.words > r.num_entries

NoRepr == [ valid |-> FALSE, num_entries |-> 0, words |-> {}, copies |-> {} ]

\* load: the handle after init and expand(h, size - 1)
LoadExpanded(size) == abitset_expandable_expand(abitset_expandable_init, U32Dec(size))

\* load: the indices i < num_entries of the non-zero words of repr
LoadNonZero(repr, size) == { b[1] : b \in { x \in repr : x[1] < CeilWords(size) } }

\* load: the directory indices i >> 9 it uses that are not below page_count
LoadOutOfRange(repr, size) ==
  { i \div PAGE_ENTRIES : i \in { j \in LoadNonZero(repr, size) :
                                    j \div PAGE_ENTRIES >= LoadExpanded(size).page_count } }

\* abitset_expandable_load: the handle returned.  A word whose directory index
\* is not below page_count is read and written outside the directory; it
\* reaches no page the handle can see.
abitset_expandable_load(repr, size) ==
  LET e == LoadExpanded(size)
      placed == { i \in LoadNonZero(repr, size) : i \div PAGE_ENTRIES < e.page_count }
  IN [ pages |-> e.pages \cup { i \div PAGE_ENTRIES : i \in placed },
       bits |-> { <<b[1] \div PAGE_ENTRIES, b[1] % PAGE_ENTRIES, b[2]>> :
                    b \in { x \in repr : x[1] \in placed } },
       page_count |-> e.page_count,
       size |-> e.size,
       max_bit |-> U32Dec(size) ]

\* the highest directory index load uses
LoadMaxIndex(repr, size) ==
  LET used == {PageOf(U32Dec(size))} \cup { i \div PAGE_ENTRIES : i \in LoadNonZero(repr, size) }
  IN CHOOSE m \in used : \A u \in used : u <= m

NoHandle == [ valid |-> FALSE, h |-> abitset_expandable_init ]

----------------------------------------------------------------------------
(* State machine *)

\* ghost: the highest id passed to set or unset so far
NoneSeen == [ seen |-> FALSE, id |-> U32(0, 0) ]

Highest(hi, id) ==
  IF hi.seen /\ U32Ge(hi.id, id) THEN hi ELSE [ seen |-> TRUE, id |-> id ]

Init ==
  /\ h = abitset_expandable_init
  /\ members = {}
  /\ highest = NoneSeen
  /\ loaded = FALSE
  /\ last = [ op |-> "create", arg |-> 0, ret |-> 0 ]
  /\ out = NoRepr
  /\ h2 = NoHandle
  /\ status = "ok"
  /\ max_index = -1

\* abitset_expandable_init called by the client: a fresh handle replaces h
Create ==
  /\ h' = abitset_expandable_init
  /\ members' = {}
  /\ highest' = NoneSeen
  /\ loaded' = FALSE
  /\ last' = [ op |-> "create", arg |-> 0, ret |-> 0 ]
  /\ out' = NoRepr
  /\ h2' = NoHandle
  /\ status' = "ok"
  /\ max_index' = -1

Set(id) ==
  /\ status = "ok"
  /\ h' = abitset_expandable_set(h, id)
  /\ members' = IF loaded THEN members ELSE members \cup {id}
  /\ highest' = IF loaded THEN highest ELSE Highest(highest, id)
  /\ last' = [ op |-> "set", arg |-> id, ret |-> 0 ]
  /\ out' = NoRepr
  /\ h2' = NoHandle
  /\ max_index' = PageOf(id)
  /\ UNCHANGED <<loaded, status>>

Unset(id) ==
  /\ status = "ok"
  /\ h' = abitset_expandable_unset(h, id)
  /\ members' = IF loaded THEN members ELSE members \ {id}
  /\ highest' = IF loaded THEN highest ELSE Highest(highest, id)
  /\ last' = [ op |-> "unset", arg |-> id, ret |-> 0 ]
  /\ out' = NoRepr
  /\ h2' = NoHandle
  /\ max_index' = PageOf(id)
  /\ UNCHANGED <<loaded, status>>

\* a test that grows the handle the way unset does before it reads
TestExpanding(id) ==
  /\ status = "ok"
  /\ h' = abitset_expandable_expand(h, id)
  /\ last' = [ op |-> "test", arg |-> id, ret |-> abitset_expandable_enabled(h', id) ]
  /\ max_index' = PageOf(id)
  /\ UNCHANGED <<members, highest, loaded, out, h2, status>>

\* abitset_expandable_enabled called by the client: pages[page] is read only
\* after `id >= max_bit` and `page >= page_count` are both false
Test(id) ==
  /\ status = "ok"
  /\ last' = [ op |-> "test", arg |-> id, ret |-> abitset_expandable_enabled(h, id) ]
  /\ max_index' = IF U32Ge(id, h.max_bit) \/ PageOf(id) >= h.page_count
                  THEN -1 ELSE PageOf(id)
  /\ UNCHANGED <<h, members, highest, loaded, out, h2, status>>

Count ==
  /\ status = "ok"
  /\ last' = [ op |-> "count", arg |-> 0, ret |-> abitset_expandable_count(h) ]
  /\ max_index' = h.page_count - 1
  /\ UNCHANGED <<h, members, highest, loaded, out, h2, status>>

Size ==
  /\ status = "ok"
  /\ last' = [ op |-> "size", arg |-> 0, ret |-> abitset_expandable_size(h) ]
  /\ max_index' = -1
  /\ UNCHANGED <<h, members, highest, loaded, out, h2, status>>

\* abitset_expandable_repr called by the client.  A memcpy past the end of
\* the buffer is undefined behaviour: the process stops, or goes on with
\* memory outside the handle overwritten.
Repr ==
  /\ status = "ok"
  /\ out' = abitset_expandable_repr(h)
  /\ last' = [ op |-> "repr", arg |-> 0, ret |-> 0 ]
  /\ max_index' = h.page_count - 1
  /\ h2' = NoHandle
  /\ IF ReprOverflow(abitset_expandable_repr(h))
     THEN status' \in {"ok", "crashed"}
     ELSE status' = status
  /\ UNCHANGED <<h, members, highest, loaded>>

\* load(repr(h), size(h)): the dense array just produced is loaded into a
\* second handle, h2
LoadRepr ==
  /\ status = "ok"
  /\ out.valid
  /\ h2' = [ valid |-> TRUE,
             h |-> abitset_expandable_load(out.words, abitset_expandable_size(h)) ]
  /\ last' = [ op |-> "loadrepr", arg |-> 0, ret |-> 0 ]
  /\ max_index' = LoadMaxIndex(out.words, abitset_expandable_size(h))
  /\ IF LoadOutOfRange(out.words, abitset_expandable_size(h)) # {}
     THEN status' \in {"ok", "crashed"}
     ELSE status' = status
  /\ UNCHANGED <<h, members, highest, loaded, out>>

\* abitset_expandable_load called by the client on a word array of its own:
\* the handle returned replaces h.  Indexing the directory at or above
\* page_count is undefined behaviour: the process stops, or goes on with the
\* word written where the handle cannot see it.
Load(k) ==
  /\ status = "ok"
  /\ h' = abitset_expandable_load(LoadPool[k].words, LoadPool[k].size)
  /\ members' = {}
  /\ highest' = NoneSeen
  /\ loaded' = TRUE
  /\ last' = [ op |-> "load", arg |-> k, ret |-> 0 ]
  /\ out' = NoRepr
  /\ h2' = NoHandle
  /\ max_index' = LoadMaxIndex(LoadPool[k].words, LoadPool[k].size)
  /\ IF LoadOutOfRange(LoadPool[k].words, LoadPool[k].size) # {}
     THEN status' \in {"ok", "crashed"}
     ELSE status' = status

Next ==
  \/ Create
  \/ \E id \in Ids : Set(id)
  \/ \E id \in Ids : Unset(id)
  \/ \E id \in Ids : Test(id)
  \/ Count
  \/ Size
  \/ Repr
  \/ LoadRepr
  \/ \E k \in Loads : Load(k)

Spec == Init /\ [][Next]_vars

----------------------------------------------------------------------------
(* Helpers of the properties *)

\* a <= b on uint32_t
U32Le(a, b) == ~U32Lt(b, a)

\* id + 1 as a natural number, not reduced modulo 2^32 (word index may be 2^26)
NatSucc(id) == IF id[2] < 63 THEN <<id[1], id[2] + 1>> ELSE <<id[1] + 1, 0>>

\* ceil((id + 1) / 64) as a natural number
NatWords(id) == id[1] + 1

IsPowerOfTwo(n) == \E k \in 0..30 : n = 2^k

\* every id whose <<page, offset, bit>> is a 1 bit of hh: the ids that share
\* the storage bit t are t's page span start + k * (64 * PAGE_ENTRIES) + its
\* position in the page, for the k that stay inside the span
IdsOfStoredBits(hh) ==
  { <<t[1] * PAGE_SHIFT_WORDS + k * PAGE_ENTRIES + t[2], t[3]>> :
      t \in hh.bits, k \in 0..((PAGE_SHIFT_WORDS \div PAGE_ENTRIES) - 1) }

\* the ids below logical_size(hh) for which test answers true
TestTrue(hh) ==
  { id \in IdsOfStoredBits(hh) :
      U32Lt(id, abitset_expandable_size(hh)) /\ abitset_expandable_enabled(hh, id) }

\* the directory capacity of the handle the last operation indexed
IndexedCapacity == IF last.op = "loadrepr" THEN h2.h.page_count ELSE h.page_count

----------------------------------------------------------------------------
(* Properties *)

\* C1: on a handle built by set/unset alone, right after set(h, a) test(h, a)
\* is true, and right after unset(h, a) test(h, a) is false; also when a is
\* the highest id passed so far and when a = 0 on a fresh handle.
C1_SetThenTest ==
  ~loaded =>
    /\ last.op = "set" => abitset_expandable_enabled(h, last.arg)
    /\ last.op = "unset" => ~abitset_expandable_enabled(h, last.arg)

\* C2: on a handle built by set/unset alone, set(h, a) and unset(h, a) leave
\* test(h, b) as it was for every b # a that is below max_bit before and
\* after the call.
C2_OtherIdsKept ==
  [][ (~loaded /\ last'.op \in {"set", "unset"}) =>
        \A b \in Ids :
          (b # last'.arg /\ U32Lt(b, h.max_bit) /\ U32Lt(b, h'.max_bit)) =>
            (abitset_expandable_enabled(h', b) = abitset_expandable_enabled(h, b)) ]_vars

\* C3: for h built by set/unset alone, h2 = load(repr(h), size(h)) answers
\* test as h does for every id in [0, max_bit(h)], and has the logical size
\* and the count of h.
C3_RoundTrip ==
  (~loaded /\ h2.valid) =>
    /\ \A id \in Ids \cup IdsOfStoredBits(h) \cup IdsOfStoredBits(h2.h) :
         U32Le(id, h.max_bit) =>
           (abitset_expandable_enabled(h2.h, id) = abitset_expandable_enabled(h, id))
    /\ abitset_expandable_size(h2.h) = abitset_expandable_size(h)
    /\ abitset_expandable_count(h2.h) = abitset_expandable_count(h)

\* C4: on a handle built by set/unset alone, count(h) is the number of ids
\* in [0, logical_size(h)) for which test(h, id) is true.
C4_CountIsTestTrue ==
  ~loaded => abitset_expandable_count(h) = Cardinality(TestTrue(h))

\* C5: page_count is a power of two and is above every directory index an
\* operation uses (load included).  That page_count never decreases over the
\* life of a handle is C5_PageCountGrows.
C5_Directory ==
  /\ IsPowerOfTwo(h.page_count)
  /\ h2.valid => IsPowerOfTwo(h2.h.page_count)
  /\ max_index < IndexedCapacity

C5_PageCountGrows ==
  [][ last'.op \in {"set", "unset", "test", "count", "size", "repr", "loadrepr"} =>
        h'.page_count >= h.page_count ]_vars

\* C6: after a non-empty sequence of set/unset on a fresh handle,
\* logical_size(h) is the highest id passed plus one, as a number (not
\* reduced modulo 2^32).
C6_LogicalSize ==
  (~loaded /\ highest.seen) => abitset_expandable_size(h) = NatSucc(highest.id)

\* C7: h = load(words, n), n >= 1, has logical_size(h) = n, count(h) = the
\* number of 1 bits of words, and max_bit = n - 1.
C7_Load ==
  last.op = "load" =>
    /\ abitset_expandable_size(h) = LoadPool[last.arg].size
    /\ abitset_expandable_count(h) = Cardinality(LoadPool[last.arg].words)
    /\ h.max_bit = U32Dec(LoadPool[last.arg].size)

\* C8: test(h, id) changes nothing of the handle: pages, the contents and
\* allocation of every page, page_count, size and max_bit.
C8_TestReadOnly ==
  [][ last'.op = "test" => h' = h ]_vars

\* C8 witness: a test has run on an id above max_bit whose page index is at
\* or beyond the directory capacity, on a handle that holds bits.
C8_Witness ==
  /\ last.op = "test"
  /\ U32Gt(last.arg, h.max_bit)
  /\ PageOf(last.arg) >= h.page_count
  /\ h.bits # {}

\* C9: for h built by set/unset alone and every id in [0, max_bit(h)], bit
\* (id mod 64) of word (id div 64) of repr(h) is 1 exactly when the last
\* operation on id was set.
C9_DenseLayout ==
  (~loaded /\ out.valid) =>
    \A id \in Ids \cup out.words :
      U32Le(id, h.max_bit) => (id \in out.words <=> id \in members)

\* C10: for h built by set/unset alone, repr's buffer has ceil((max_bit+1)/64)
\* words, every memcpy lands inside it, and bits_remaining never wraps.
C10_ReprInBounds ==
  (~loaded /\ out.valid) =>
    /\ out.num_entries = NatWords(h.max_bit)
    /\ \A c \in out.copies :
         /\ ~c.wrapped
         /\ c.start_idx + c.words <= out.num_entries

====
